---- MODULE Spec2Model ----
(***************************************************************************)
(* A model of the async_pool crate (src/src/lib.rs): AsyncPool<T>, an      *)
(* unbounded mpsc channel whose receiver and sender each sit behind a      *)
(* std::sync::RwLock, and AsyncPoolGuard<T>, which sends its resource back *)
(* into the channel when dropped.                                          *)
(*                                                                         *)
(* Client tasks are futures polled by per-thread cooperative executors:    *)
(* every task is pinned to one worker thread (the rsvp future holds a      *)
(* RwLockWriteGuard across an await and the guard holds a Box<dyn FnMut>,  *)
(* so neither is Send), and a worker polls one task at a time until that   *)
(* task suspends or finishes its call.  std::sync::RwLock blocks the       *)
(* calling THREAD, so a task that waits for a lock keeps its worker.       *)
(*                                                                         *)
(* Spec has every operation of the crate and what a client may do with a   *)
(* suspended rsvp: wait for it or drop it.  FairSpec adds the executors'    *)
(* scheduling to the runs in which every wait is waited out.  The other    *)
(* specifications are runs of a particular kind: round trips only          *)
(* (SpecRoundTrip), abandonments remembered (SpecAbandon), the order of    *)
(* the rsvp calls remembered (SpecOrder), client code that panics while    *)
(* its rsvp is suspended (SpecPoison).                                     *)
(***************************************************************************)
EXTENDS Integers, Sequences, FiniteSets, TLC

(* ------------------------------ bounds --------------------------------- *)
NumTasks == 2
NumWorkers == 2
NumResources == 2
MaxInit == 2
MaxDrops == 2
MaxTrips == 3

Tasks == 1..NumTasks
Workers == 1..NumWorkers
Resources == 1..NumResources

\* Option::None (no resource, no task, no holder); resources and tasks count from 1.
None == 0

VARIABLES
    pool,               \* "building" (inside new_with), "alive", "dropped"
    seed,               \* the Vec passed to new_with (<<>> for new())
    initial_resources,  \* what new_with's drain(..) has not yet yielded
    queue,              \* the channel's contents, front first
    added,              \* the resources handed to add so far (new_with's included)
    rxHolder,           \* the task holding rx.write(), or None
    txHolder,           \* the task holding tx.write(), or None
    rxPoisoned,         \* a write guard on rx was dropped by a panicking thread
    txPoisoned,         \* a write guard on tx was dropped by a panicking thread
    pc,                 \* where each task is
    worker,             \* the worker thread each task is pinned to
    item,               \* the argument of the add a task is executing
    guards,             \* per task, the inner of each guard it holds, oldest first
    husk,               \* the guard object whose drop ran last, while it can be reached
    pristine,           \* no add and no guard drop since construction ended
    began,              \* the tasks that have called rsvp, in call order (ordering runs only)
    gaveUp,             \* the task whose rsvp was abandoned before anything was added (abandonment runs only)
    trips               \* completed rsvp/drop round trips (round-trip runs only)

vars == <<pool, seed, initial_resources, queue, added, rxHolder, txHolder,
          rxPoisoned, txPoisoned, pc, worker, item, guards, husk, pristine, began,
          gaveUp, trips>>

(* ------------------------------ helpers -------------------------------- *)
Range(s) == {s[i] : i \in 1..Len(s)}

\* The sequences without repetition over S of length at most n.
RECURSIVE DistinctSeqs(_, _)
DistinctSeqs(S, n) ==
    IF n = 0 THEN {<<>>}
    ELSE LET shorter == DistinctSeqs(S, n - 1)
             longest == {s \in shorter : Len(s) = n - 1}
         IN shorter \cup UNION {{Append(s, x) : x \in S \ Range(s)} : s \in longest}

\* No finalized guard object is within reach.
NoHusk == [owner |-> None, inner |-> None, drops |-> 0]

\* The program positions in which a task is being polled: its worker thread is
\* inside the task's code (possibly blocked in a lock) and polls nobody else.
Running == {"rsvp_lock_rx", "add_send"}

\* The program positions inside rsvp, and those a task never leaves: the
\* panics of lib.rs ("poisoned", "closed", "pool_dropped", "no_inner",
\* "send_failed"), the panic of write() on a lock its own thread holds
\* ("panicked") and a panic of the client's own code ("unwound").
InRsvp == {"rsvp_lock_rx", "rsvp_wait"}
Fatal == {"panicked", "poisoned", "closed", "pool_dropped", "no_inner",
          "send_failed", "unwound"}

\* The worker of t is not inside another task's poll.
CanRun(t) == \A u \in Tasks \ {t} : worker[u] = worker[t] => pc[u] \notin Running

\* s without its i-th element.
RemoveAt(s, i) == SubSeq(s, 1, i - 1) \o SubSeq(s, i + 1, Len(s))

\* The resources no add has been given yet.
Fresh == Resources \ (added \cup Range(initial_resources) \cup {item[t] : t \in Tasks})

\* The ways to pin the tasks to the workers, one per renaming of tasks among
\* themselves and of workers among themselves (all tasks run the same client
\* code and all workers are alike): task 1 on worker 1, each next task on the
\* previous task's worker or on the next unused one.
Placements == {w \in [Tasks -> Workers] :
                  /\ w[1] = 1
                  /\ \A t \in Tasks \ {1} : w[t] \in {w[t - 1], w[t - 1] + 1}}

\* Every guard object whose drop has not run, as a <<task, index>> pair.
GuardIds == UNION {{<<t, i>> : i \in 1..Len(guards[t])} : t \in Tasks}

\* A faulty Senders: only the guards' senders are counted.
SendersOfGuards == Cardinality(GuardIds)

\* The senders of the channel that exist: the pool's own (self.tx), the clone
\* every unfinished rsvp call made on entry, and the one in every guard's closure.
Senders ==
    (IF pool = "dropped" THEN 0 ELSE 1)
        + Cardinality({t \in Tasks : pc[t] \in InRsvp})
        + Cardinality(GuardIds)

(* ------------------------------- Init ---------------------------------- *)
\* AsyncPool::new inside new_with: an empty channel, both locks free.
Init ==
    /\ pool = "building"
    /\ seed \in DistinctSeqs(Resources, MaxInit)
    /\ initial_resources = seed
    /\ queue = <<>>
    /\ added = {}
    /\ rxHolder = None
    /\ txHolder = None
    /\ rxPoisoned = FALSE
    /\ txPoisoned = FALSE
    /\ pc = [t \in Tasks |-> "idle"]
    /\ worker \in Placements
    /\ item = [t \in Tasks |-> None]
    /\ guards = [t \in Tasks |-> <<>>]
    /\ husk = NoHusk
    /\ pristine = TRUE
    /\ began = <<>>
    /\ gaveUp = None
    /\ trips = 0

(* --------------------------- channel and guard -------------------------- *)
\* A faulty Send: the item goes to the front.
SendFront(q, x) == <<x>> \o q

\* UnboundedSender::send / unbounded_send: the item goes to the back.
Send(q, x) == Append(q, x)

\* A faulty Front: the guard is built around nothing.
FrontNone(q) == None

\* A faulty Front: the receiver yields the newest item.
FrontNewest(q) == q[Len(q)]

\* A faulty Rest: the yielded item is not removed.
RestKeep(q) == q

\* rx.next(): the item the receiver yields, and what stays in the channel.
Front(q) == Head(q)
Rest(q) == Tail(q)

\* A faulty Taken: drop reads inner without taking it.
TakenKeep(inner) == inner

\* self.inner.take(): what the guard holds after its drop has run.
Taken(inner) == None

(* ------------------------------ new_with ------------------------------- *)
\* One turn of new_with's loop: new.add(i).await on the next drained element.
NewWithAdd ==
    /\ pool = "building"
    /\ initial_resources # <<>>
    /\ queue' = Send(queue, Head(initial_resources))
    /\ added' = added \cup {Head(initial_resources)}
    /\ initial_resources' = Tail(initial_resources)
    /\ UNCHANGED <<pool, seed, rxHolder, txHolder, rxPoisoned, txPoisoned, pc, worker,
                   item, guards, husk, pristine, began, gaveUp, trips>>

\* new_with returns the pool; from here on tasks share it.
NewWithReturn ==
    /\ pool = "building"
    /\ initial_resources = <<>>
    /\ pool' = "alive"
    /\ UNCHANGED <<seed, initial_resources, queue, added, rxHolder, txHolder,
                   rxPoisoned, txPoisoned, pc, worker, item, guards, husk, pristine,
                   began, gaveUp, trips>>

(* -------------------------------- rsvp --------------------------------- *)
\* self.tx.read().expect("Poisoned sender").clone(): the read lock waits for a
\* writer of tx (an add on another thread, which never suspends while it holds
\* the lock); the read guard is a temporary and is gone when the statement ends.
RsvpEnter(t) ==
    /\ pool = "alive"
    /\ pc[t] = "idle"
    /\ CanRun(t)
    /\ txHolder = None
    /\ pc' = [pc EXCEPT ![t] = IF txPoisoned THEN "poisoned" ELSE "rsvp_lock_rx"]
    /\ UNCHANGED <<pool, seed, initial_resources, queue, added, rxHolder, txHolder,
                   rxPoisoned, txPoisoned, worker, item, guards, husk, pristine,
                   gaveUp, trips>>

RsvpCloneTx(t) == RsvpEnter(t) /\ began' = began

\* rx.next() is Ready(Some(x)): the guard is built around x, the write guard on
\* rx goes out of scope and rsvp returns.
Receive(t) ==
    /\ queue # <<>>
    /\ guards' = [guards EXCEPT ![t] = Append(@, Front(queue))]
    /\ queue' = Rest(queue)
    /\ rxHolder' = None
    /\ pc' = [pc EXCEPT ![t] = "idle"]
    /\ UNCHANGED <<pool, seed, initial_resources, added, txHolder, rxPoisoned,
                   txPoisoned, worker, item, husk, pristine, began, gaveUp, trips>>

\* rx.next() is Ready(None), the channel is empty and no sender is left: the
\* unwrap() panics while the write guard on rx is alive, which poisons rx.
Closed(t) ==
    /\ queue = <<>>
    /\ Senders = 0
    /\ rxHolder' = None
    /\ rxPoisoned' = TRUE
    /\ pc' = [pc EXCEPT ![t] = "closed"]
    /\ UNCHANGED <<pool, seed, initial_resources, queue, added, txHolder, txPoisoned,
                   worker, item, guards, husk, pristine, began, gaveUp, trips>>

\* rx.next() is Pending: the task suspends holding the write guard on rx, and
\* its worker is free again.
Pending(t) ==
    /\ queue = <<>>
    /\ Senders > 0
    /\ rxHolder' = t
    /\ pc' = [pc EXCEPT ![t] = "rsvp_wait"]
    /\ UNCHANGED <<pool, seed, initial_resources, queue, added, txHolder, rxPoisoned,
                   txPoisoned, worker, item, guards, husk, pristine, began, gaveUp,
                   trips>>

\* A faulty RsvpLockRx: a poisoned lock is taken like a sound one.
RsvpLockRxHeedless(t) ==
    /\ pc[t] = "rsvp_lock_rx"
    /\ rxHolder = None
    /\ (Receive(t) \/ Closed(t) \/ Pending(t))

\* A faulty RsvpLockRx: the receiver is taken without waiting for its holder.
RsvpLockRxShared(t) ==
    /\ pc[t] = "rsvp_lock_rx"
    /\ (Receive(t) \/ Pending(t))

\* self.rx.write().expect("Poisoned receiver"), granted when nobody holds the
\* receiver (otherwise the calling thread blocks inside write(): t stays here and
\* keeps its worker), and the first poll of rx.next().await in the same turn.  On
\* a poisoned lock write() returns Err once the lock is free, and expect panics.
RsvpLockRx(t) ==
    /\ pc[t] = "rsvp_lock_rx"
    /\ rxHolder = None
    /\ IF rxPoisoned
       THEN /\ pc' = [pc EXCEPT ![t] = "poisoned"]
            /\ UNCHANGED <<pool, seed, initial_resources, queue, added, rxHolder,
                           txHolder, rxPoisoned, txPoisoned, worker, item, guards,
                           husk, pristine, began, gaveUp, trips>>
       ELSE Receive(t) \/ Closed(t) \/ Pending(t)

\* self.rx.write() when the holder is a task suspended on the caller's own thread:
\* std documents that write() "might panic" then; where it does not, the thread
\* blocks for good (no step).
RsvpLockRxPanic(t) ==
    /\ pc[t] = "rsvp_lock_rx"
    /\ rxHolder # None
    /\ worker[rxHolder] = worker[t]
    /\ pc' = [pc EXCEPT ![t] = "panicked"]
    /\ UNCHANGED <<pool, seed, initial_resources, queue, added, rxHolder, txHolder,
                   rxPoisoned, txPoisoned, worker, item, guards, husk, pristine,
                   began, gaveUp, trips>>

\* A send woke the receiver's task (or the last sender went away): its worker
\* polls rx.next() again.
RsvpWake(t) ==
    /\ pc[t] = "rsvp_wait"
    /\ CanRun(t)
    /\ (Receive(t) \/ Closed(t))

\* A faulty RsvpDropped: the write guard on rx is not released.
RsvpDroppedHeld(t) ==
    /\ pc[t] = "rsvp_wait"
    /\ CanRun(t)
    /\ pc' = [pc EXCEPT ![t] = "idle"]
    /\ UNCHANGED <<pool, seed, initial_resources, queue, added, rxHolder, txHolder,
                   rxPoisoned, txPoisoned, worker, item, guards, husk, pristine, began,
                   trips>>

\* The future of a suspended rsvp is dropped (its caller gave up the wait, or
\* the task around it was dropped): the write guard on rx and the cloned sender
\* go with it; no guard was built.
RsvpDropped(t) ==
    /\ pc[t] = "rsvp_wait"
    /\ CanRun(t)
    /\ rxHolder' = None
    /\ pc' = [pc EXCEPT ![t] = "idle"]
    /\ UNCHANGED <<pool, seed, initial_resources, queue, added, txHolder, rxPoisoned,
                   txPoisoned, worker, item, guards, husk, pristine, began, trips>>

RsvpAbandon(t) == RsvpDropped(t) /\ gaveUp' = gaveUp

\* Code the task runs alongside its suspended rsvp panics: unwinding drops the
\* rsvp future, and a write guard dropped by a panicking thread poisons rx.
RsvpUnwind(t) ==
    /\ pc[t] = "rsvp_wait"
    /\ CanRun(t)
    /\ rxHolder' = None
    /\ rxPoisoned' = TRUE
    /\ pc' = [pc EXCEPT ![t] = "unwound"]
    /\ UNCHANGED <<pool, seed, initial_resources, queue, added, txHolder, txPoisoned,
                   worker, item, guards, husk, pristine, began, gaveUp, trips>>

(* --------------------------------- add --------------------------------- *)
\* self.tx.write().expect("Poisoned sender"), with the item the caller passes;
\* the write lock waits for another thread's add to finish.
AddLockTx(t, r) ==
    /\ pool = "alive"
    /\ pc[t] = "idle"
    /\ CanRun(t)
    /\ r \in Fresh
    /\ txHolder = None
    /\ IF txPoisoned
       THEN /\ pc' = [pc EXCEPT ![t] = "poisoned"]
            /\ UNCHANGED <<txHolder, item>>
       ELSE /\ txHolder' = t
            /\ item' = [item EXCEPT ![t] = r]
            /\ pc' = [pc EXCEPT ![t] = "add_send"]
    /\ UNCHANGED <<pool, seed, initial_resources, queue, added, rxHolder, rxPoisoned,
                   txPoisoned, worker, guards, husk, pristine, began, gaveUp, trips>>

\* The send of add on a channel whose receiver is gone: unwrap() panics while
\* the write guard on tx is alive, which poisons tx.
SendFailed(t) ==
    /\ pool # "alive"
    /\ txHolder' = None
    /\ txPoisoned' = TRUE
    /\ pc' = [pc EXCEPT ![t] = "send_failed"]
    /\ UNCHANGED <<pool, seed, initial_resources, queue, added, rxHolder, rxPoisoned,
                   worker, item, guards, husk, pristine, began, gaveUp, trips>>

\* The send of add on a live pool: the item is queued and add returns.
Sent(t) ==
    /\ pool = "alive"
    /\ queue' = Send(queue, item[t])
    /\ added' = added \cup {item[t]}
    /\ txHolder' = None
    /\ item' = [item EXCEPT ![t] = None]
    /\ pc' = [pc EXCEPT ![t] = "idle"]
    /\ pristine' = FALSE
    /\ UNCHANGED <<pool, seed, initial_resources, rxHolder, rxPoisoned, txPoisoned,
                   worker, guards, husk, began, gaveUp, trips>>

\* A faulty AddSend: the send waits until no reservation holds the receiver.
AddSendWaits(t) ==
    /\ pc[t] = "add_send"
    /\ rxHolder = None
    /\ (Sent(t) \/ SendFailed(t))

\* .send(item).await.unwrap(): an unbounded sender is always ready, so the send
\* completes in this poll; the write guard on tx is dropped on return.
AddSend(t) ==
    /\ pc[t] = "add_send"
    /\ (Sent(t) \/ SendFailed(t))

(* ----------------------------- guard, pool ------------------------------ *)
\* A faulty DropBody: the resource is taken out and never sent.
DropBodyLeak(t, inner) ==
    /\ pristine' = (pristine /\ inner = None)
    /\ UNCHANGED <<queue, pc>>

\* A faulty DropBody: the send needs both locks of the pool to be free.
DropBodyLocked(t, inner) ==
    /\ rxHolder = None
    /\ txHolder = None
    /\ pristine' = (pristine /\ inner = None)
    /\ IF inner # None /\ pool = "alive"
       THEN queue' = Append(queue, inner) /\ pc' = pc
       ELSE queue' = queue /\ pc' = [pc EXCEPT ![t] = IF inner # None THEN "pool_dropped" ELSE @]

\* The body of Drop for AsyncPoolGuard, run by task t on a guard holding inner:
\* if let Some(i) = self.inner.take() { (self.tx)(i) }.  The closure's
\* unbounded_send fails when the receiver is gone, and its
\* expect("Pool was dropped before guard") then panics.
DropBody(t, inner) ==
    IF inner # None
    THEN /\ pristine' = FALSE
         /\ IF pool = "alive"
            THEN /\ queue' = Send(queue, inner)
                 /\ pc' = pc
            ELSE /\ queue' = queue
                 /\ pc' = [pc EXCEPT ![t] = "pool_dropped"]
    ELSE UNCHANGED <<queue, pc, pristine>>

\* The owner lets a guard go out of scope: drop runs on it.  The finalized
\* object stays within reach of a forced second finalization until the next
\* guard is dropped.
DropScope(t, i) ==
    /\ pc[t] = "idle"
    /\ CanRun(t)
    /\ i \in 1..Len(guards[t])
    /\ DropBody(t, guards[t][i])
    /\ guards' = [guards EXCEPT ![t] = RemoveAt(@, i)]
    /\ husk' = [owner |-> t, inner |-> Taken(guards[t][i]), drops |-> 1]
    /\ UNCHANGED <<pool, seed, initial_resources, added, rxHolder, txHolder,
                   rxPoisoned, txPoisoned, worker, item, began, gaveUp>>

DropGuard(t, i) == DropScope(t, i) /\ trips' = trips

\* A forced finalization: drop runs again on the object it has already run on.
DropAgain(t) ==
    /\ pc[t] = "idle"
    /\ CanRun(t)
    /\ husk.owner = t
    /\ DropBody(t, husk.inner)
    /\ husk' = IF husk.drops + 1 >= MaxDrops
               THEN NoHusk
               ELSE [husk EXCEPT !.inner = Taken(@), !.drops = @ + 1]
    /\ UNCHANGED <<pool, seed, initial_resources, added, rxHolder, txHolder,
                   rxPoisoned, txPoisoned, worker, item, guards, began, gaveUp,
                   trips>>

\* deref / deref_mut on a guard the task holds:
\* self.inner.as_ref().expect("Inner value dropped while Guard was active").
\* The caller reads or writes the resource in place; the pool sees nothing.
Deref(t, i) ==
    /\ pc[t] = "idle"
    /\ CanRun(t)
    /\ i \in 1..Len(guards[t])
    /\ pc' = [pc EXCEPT ![t] = IF guards[t][i] # None THEN @ ELSE "no_inner"]
    /\ UNCHANGED <<pool, seed, initial_resources, queue, added, rxHolder, txHolder,
                   rxPoisoned, txPoisoned, worker, item, guards, husk, pristine,
                   began, gaveUp, trips>>

\* The owner drops the AsyncPool: no call borrows it any more; the receiver and
\* what it still holds are dropped with it.
DropPool ==
    /\ pool = "alive"
    /\ \A t \in Tasks : pc[t] \in {"idle"} \cup Fatal
    /\ pool' = "dropped"
    /\ queue' = <<>>
    /\ UNCHANGED <<seed, initial_resources, added, rxHolder, txHolder, rxPoisoned,
                   txPoisoned, pc, worker, item, guards, husk, pristine, began,
                   gaveUp, trips>>

(* ---------------------------- specification ----------------------------- *)
Next ==
    \/ NewWithAdd
    \/ NewWithReturn
    \/ \E t \in Tasks : RsvpCloneTx(t)
    \/ \E t \in Tasks : RsvpLockRx(t)
    \/ \E t \in Tasks : RsvpLockRxPanic(t)
    \/ \E t \in Tasks : RsvpWake(t)
    \/ \E t \in Tasks : RsvpAbandon(t)
    \/ \E t \in Tasks, r \in Resources : AddLockTx(t, r)
    \/ \E t \in Tasks : AddSend(t)
    \/ \E t \in Tasks, i \in 1..NumResources : DropGuard(t, i)
    \/ \E t \in Tasks : DropAgain(t)
    \/ \E t \in Tasks, i \in 1..NumResources : Deref(t, i)
    \/ DropPool

Spec == Init /\ [][Next]_vars

\* The executors' scheduling: a call that is being polled goes on when the lock
\* it needs is free, and a woken task is polled again whenever its worker
\* keeps coming free.  What the clients call, and when, is up to them.
Fairness ==
    /\ WF_vars(NewWithAdd)
    /\ WF_vars(NewWithReturn)
    /\ \A t \in Tasks : WF_vars(RsvpLockRx(t))
    /\ \A t \in Tasks : WF_vars(AddSend(t))
    /\ \A t \in Tasks : SF_vars(RsvpWake(t))

\* Every operation of the pool, no caller giving up a wait it has begun.
NextWaited ==
    \/ NewWithAdd
    \/ NewWithReturn
    \/ \E t \in Tasks : RsvpCloneTx(t)
    \/ \E t \in Tasks : RsvpLockRx(t)
    \/ \E t \in Tasks : RsvpLockRxPanic(t)
    \/ \E t \in Tasks : RsvpWake(t)
    \/ \E t \in Tasks, r \in Resources : AddLockTx(t, r)
    \/ \E t \in Tasks : AddSend(t)
    \/ \E t \in Tasks, i \in 1..NumResources : DropGuard(t, i)
    \/ \E t \in Tasks : DropAgain(t)
    \/ \E t \in Tasks, i \in 1..NumResources : Deref(t, i)
    \/ DropPool

FairSpec == Init /\ [][NextWaited]_vars /\ Fairness

(* --------------------------- round-trip runs ---------------------------- *)
\* Nothing is checked out and no call is in progress.
Quiescent == \A t \in Tasks : pc[t] = "idle" /\ guards[t] = <<>>

\* A task starts a reservation on the quiescent pool.
RoundTripRsvp(t) ==
    /\ Quiescent
    /\ trips < MaxTrips
    /\ RsvpCloneTx(t)

\* The task drops the guard it has just obtained: one round trip is complete.
RoundTripDrop(t) ==
    /\ DropScope(t, 1)
    /\ trips' = trips + 1

\* rsvp followed by the drop of its guard, over and over, nothing else between.
NextRoundTrip ==
    \/ NewWithAdd
    \/ NewWithReturn
    \/ \E t \in Tasks : RoundTripRsvp(t)
    \/ \E t \in Tasks : RsvpLockRx(t)
    \/ \E t \in Tasks : RoundTripDrop(t)

SpecRoundTrip == Init /\ [][NextRoundTrip]_vars

(* --------------------------- abandonment runs --------------------------- *)
\* An rsvp is abandoned; the run remembers who gave up while the pool had never
\* been given a resource.
RsvpGivenUp(t) == RsvpDropped(t) /\ gaveUp' = IF added = {} THEN t ELSE gaveUp

\* Every operation of the pool, abandonments remembered.
NextAbandon ==
    \/ NewWithAdd
    \/ NewWithReturn
    \/ \E t \in Tasks : RsvpCloneTx(t)
    \/ \E t \in Tasks : RsvpLockRx(t)
    \/ \E t \in Tasks : RsvpLockRxPanic(t)
    \/ \E t \in Tasks : RsvpWake(t)
    \/ \E t \in Tasks : RsvpGivenUp(t)
    \/ \E t \in Tasks, r \in Resources : AddLockTx(t, r)
    \/ \E t \in Tasks : AddSend(t)
    \/ \E t \in Tasks, i \in 1..NumResources : DropGuard(t, i)
    \/ DropPool

SpecAbandon == Init /\ [][NextAbandon]_vars

(* ----------------------------- ordering runs ---------------------------- *)
\* A task calls rsvp, once in a run; the run remembers the order of the calls.
RsvpBegin(t) ==
    /\ t \notin Range(began)
    /\ RsvpEnter(t)
    /\ began' = Append(began, t)

\* The thread that owns the pool, which runs none of the tasks, calls add: it
\* takes the free write lock on tx, sends and returns, in one go.
OwnerAdd(r) ==
    /\ pool = "alive"
    /\ r \in Fresh
    /\ txHolder = None
    /\ ~txPoisoned
    /\ queue' = Send(queue, r)
    /\ added' = added \cup {r}
    /\ pristine' = FALSE
    /\ UNCHANGED <<pool, seed, initial_resources, rxHolder, txHolder, rxPoisoned,
                   txPoisoned, pc, worker, item, guards, husk, began, gaveUp, trips>>

\* Reservations, pushes and guard drops, every reservation running to its end.
NextOrder ==
    \/ NewWithAdd
    \/ NewWithReturn
    \/ \E t \in Tasks : RsvpBegin(t)
    \/ \E t \in Tasks : RsvpLockRx(t)
    \/ \E t \in Tasks : RsvpLockRxPanic(t)
    \/ \E t \in Tasks : RsvpWake(t)
    \/ \E t \in Tasks, r \in Resources : AddLockTx(t, r)
    \/ \E t \in Tasks : AddSend(t)
    \/ \E r \in Resources : OwnerAdd(r)
    \/ \E t \in Tasks, i \in 1..NumResources : DropGuard(t, i)

SpecOrder == Init /\ [][NextOrder]_vars

(* ------------------------------ panic runs ------------------------------ *)
\* Reservations, pushes and guard drops by tasks whose own code may panic
\* while their rsvp is suspended.
NextPoison ==
    \/ NewWithAdd
    \/ NewWithReturn
    \/ \E t \in Tasks : RsvpCloneTx(t)
    \/ \E t \in Tasks : RsvpLockRx(t)
    \/ \E t \in Tasks : RsvpLockRxPanic(t)
    \/ \E t \in Tasks : RsvpWake(t)
    \/ \E t \in Tasks : RsvpUnwind(t)
    \/ \E t \in Tasks, r \in Resources : AddLockTx(t, r)
    \/ \E t \in Tasks : AddSend(t)
    \/ \E t \in Tasks, i \in 1..NumResources : DropGuard(t, i)

SpecPoison == Init /\ [][NextPoison]_vars

(* ------------------------------- claims --------------------------------- *)
Inner(id) == guards[id[1]][id[2]]

\* The resources held by guards, and how many guards hold one.
HeldSet == {Inner(id) : id \in GuardIds}
NumHeld == Cardinality(GuardIds)

\* Some task's guard has gone out of scope in this step.
GuardDropped(t) == Len(guards'[t]) < Len(guards[t])

\* Some task's rsvp has returned in this step.
GuardIssued(t) == Len(guards'[t]) > Len(guards[t])

\* C1 (conservation): while the pool exists, the resources in the queue and the
\* resources held by guards are together exactly the resources handed to add
\* (new_with's included), each of them once: count(available) +
\* count(outstanding) = total added.
C1_Conservation ==
    pool # "dropped" =>
        /\ Len(queue) + NumHeld = Cardinality(added)
        /\ Range(queue) \cup HeldSet = added

\* C1's case: resources were seeded and added, one is checked out, one is
\* queued, and a guard has already been dropped.
C1_Witness ==
    /\ pool = "alive"
    /\ ~pristine
    /\ husk.owner # None
    /\ added # Range(seed)
    /\ NumHeld >= 1
    /\ Len(queue) >= 1

\* C2 (exclusivity): no resource is held by two guards, and no resource is both
\* queued and held by a guard.
C2_Exclusivity ==
    /\ \A a, b \in GuardIds : a # b => Inner(a) # Inner(b)
    /\ \A a \in GuardIds : Inner(a) \notin Range(queue)

\* C2's case: two tasks on different workers have reserved concurrently and
\* both hold a guard.
C2_Witness ==
    \E t, u \in Tasks :
        /\ worker[t] # worker[u]
        /\ guards[t] # <<>>
        /\ guards[u] # <<>>

\* C3 (return-on-drop): whenever a guard goes out of scope while the pool is
\* alive, the resource it held is appended to the available queue, with no
\* release call by the client; and a queued resource leaves the queue only by
\* being handed to an rsvp caller (or when the pool itself is dropped).
C3_ReturnOnDrop ==
    [][/\ \A t \in Tasks :
             (GuardDropped(t) /\ pool = "alive") =>
                 \E i \in 1..Len(guards[t]) :
                     /\ guards'[t] = RemoveAt(guards[t], i)
                     /\ queue' = Append(queue, guards[t][i])
       /\ \A x \in Range(queue) \ Range(queue') :
             \/ pool' = "dropped"
             \/ \E t \in Tasks : GuardIssued(t) /\ guards'[t] = Append(guards[t], x)]_vars

\* C3's case: the pool's only resource was returned by one task's guard drop and
\* has since been obtained by a later rsvp of another task.
C3_Witness ==
    /\ pool = "alive"
    /\ Cardinality(added) = 1
    /\ \A t \in Tasks : item[t] = None
    /\ husk.owner # None
    /\ \E u \in Tasks : u # husk.owner /\ guards[u] # <<>>

\* A forced finalization takes place in this step: drop runs on the object it
\* has already run on.
DropsAgain == husk.owner # None /\ (husk' = NoHusk \/ husk'.drops > husk.drops)

\* C4 (no double release): a guard whose drop has run holds nothing, and running
\* its drop again pushes nothing: the queue, the guards and the tasks stay as
\* they are.
C4_NoDoubleRelease ==
    [][/\ husk'.inner = None
       /\ DropsAgain => (queue' = queue /\ guards' = guards /\ pc' = pc)]_vars

\* C4's case: no add took place, a guard was dropped and finalized again until
\* the object was gone, and every resource is back in the queue once.
C4_Witness ==
    /\ pool = "alive"
    /\ ~pristine
    /\ added = Range(seed)
    /\ \A t \in Tasks : item[t] = None
    /\ husk = NoHusk
    /\ queue # <<>>
    /\ Len(queue) = Cardinality(added)

\* Task u's thread is blocked in self.rx.write() by a holder that is suspended
\* on the same thread, so neither can ever run again.
Stuck(u) ==
    /\ pc[u] = "rsvp_lock_rx"
    /\ rxHolder # None
    /\ worker[rxHolder] = worker[u]

\* C5 (blocking then unblocking): rsvp returns no guard while the queue is
\* empty, and once an item x has been pushed to the empty queue a task is
\* suspended on, that task's rsvp eventually resolves to a guard holding x.
C5_BlockThenUnblock ==
    /\ [][\A t \in Tasks : GuardIssued(t) => queue # <<>>]_vars
    /\ \A t \in Tasks, x \in Resources :
           (pc[t] = "rsvp_wait" /\ queue # <<>> /\ Head(queue) = x)
               ~> (x \in Range(guards[t]))

\* C6 (concurrent capacity): on a pool that holds only its N seeded resources,
\* no rsvp resolves while all N are checked out, and once one of the guards has
\* been dropped a suspended rsvp eventually resolves.
C6_ConcurrentCapacity ==
    /\ [][\A t \in Tasks : GuardIssued(t) => NumHeld < Cardinality(added)]_vars
    /\ \A t \in Tasks :
           (pc[t] = "rsvp_wait" /\ added = Range(seed) /\ queue # <<>>)
               ~> (pc[t] = "idle")

\* C7 (reservation does not block the worker): while a task waits in rsvp, no
\* task that shares its worker is kept from running: no state is reachable in
\* which a worker thread is blocked inside rsvp by a task suspended on it.
C7_WorkerNeverBlocked == \A u \in Tasks : ~Stuck(u)

\* The place of resource x in the sequence s (0 when it is not there).
Pos(s, x) == IF x \in Range(s) THEN CHOOSE i \in 1..Len(s) : s[i] = x ELSE 0

\* Until the first add or guard drop, the seeded resources are handed out in
\* the order of the seed: the guards hold a prefix of it, each task's guards in
\* seed order, and the queue is the rest.
SeedOrder ==
    (pool = "alive" /\ pristine) =>
        /\ NumHeld <= Len(seed)
        /\ queue = SubSeq(seed, NumHeld + 1, Len(seed))
        /\ HeldSet = Range(SubSeq(seed, 1, NumHeld))
        /\ \A t \in Tasks : \A i, j \in 1..Len(guards[t]) :
               i < j => Pos(seed, guards[t][i]) < Pos(seed, guards[t][j])

\* C8 (FIFO hand-out): every rsvp that returns takes the item at the front of
\* the queue and removes it, every push (add, guard release) goes to the back,
\* and a pool seeded with [A, B] hands out A and then B.
C8_Fifo ==
    /\ [][/\ \A t \in Tasks :
                GuardIssued(t) =>
                    /\ queue # <<>>
                    /\ guards'[t] = Append(guards[t], Head(queue))
                    /\ queue' = Tail(queue)
          /\ Len(queue') > Len(queue) =>
                \E x \in Resources : queue' = Append(queue, x)]_vars
    /\ []SeedOrder

\* C8's case: the pool was seeded with two resources and one task has reserved
\* twice in a row, holding them in seed order.
C8_Witness ==
    /\ pool = "alive"
    /\ pristine
    /\ Len(seed) = 2
    /\ \E t \in Tasks : guards[t] = seed

\* s rotated to the left by k places.
Rotate(s, k) ==
    IF s = <<>> THEN s ELSE [i \in 1..Len(s) |-> s[((i - 1 + k) % Len(s)) + 1]]

\* C9 as the specification states it (round trip): after any number of
\* uninterleaved rsvp/drop round trips the queue is as it was seeded, in the
\* original order.
C9_OriginalOrder == (pool = "alive" /\ Quiescent) => queue = seed

\* C9 as amended: after k uninterleaved round trips the queue holds the same
\* elements, rotated to the left by k places: each trip moves the front
\* resource to the back, so the original order is back exactly when k is a
\* multiple of the queue's length.
C9_RoundTripRotates ==
    (pool = "alive" /\ Quiescent) =>
        /\ queue = Rotate(seed, trips)
        /\ Range(queue) = Range(seed)
        /\ (queue = seed) = (seed = <<>> \/ trips % Len(seed) = 0)

\* C9's case: a queue of at least two resources after at least two round trips.
C9_Witness ==
    /\ pool = "alive"
    /\ Quiescent
    /\ Len(seed) >= 2
    /\ trips >= 2

\* C10 (release never suspends): on a live pool a running owner can always drop
\* its guard, whoever holds the receiver lock or the sender lock, and the drop
\* is one step that pushes the resource, leaves both locks as they are and
\* leaves the owner running.
C10_ReleaseNeverSuspends ==
    /\ [](\A id \in GuardIds :
              (pool = "alive" /\ pc[id[1]] = "idle" /\ CanRun(id[1]))
                  => ENABLED DropGuard(id[1], id[2]))
    /\ [][\A t \in Tasks :
              (GuardDropped(t) /\ pool = "alive") =>
                  /\ pc'[t] = "idle"
                  /\ Len(queue') = Len(queue) + 1
                  /\ rxHolder' = rxHolder
                  /\ txHolder' = txHolder]_vars

\* C10's case: a guard has been dropped, and its resource queued, while another
\* task is suspended in rsvp holding the write lock on the receiver.
C10_Witness ==
    /\ pool = "alive"
    /\ husk.owner # None
    /\ queue # <<>>
    /\ rxHolder \notin {None, husk.owner}
    /\ pc[rxHolder] = "rsvp_wait"

\* C11 (add always completes): a task inside add holds the sender lock on a
\* live pool and can always take its sending step, whatever the queue holds and
\* whoever holds the receiver lock; a running task can always begin an add
\* when no other add is in progress; and the step that ends an add appends the
\* item at the back, leaves the receiver lock and the guards as they are and
\* leaves the caller running.
C11_AddCompletes ==
    /\ [](\A t \in Tasks :
              pc[t] = "add_send" =>
                  /\ pool = "alive"
                  /\ txHolder = t
                  /\ ENABLED AddSend(t))
    /\ [](\A t \in Tasks, r \in Fresh :
              (pool = "alive" /\ pc[t] = "idle" /\ CanRun(t) /\ txHolder = None)
                  => ENABLED AddLockTx(t, r))
    /\ [][\A t \in Tasks :
              (pc[t] = "add_send" /\ pc'[t] # "add_send") =>
                  /\ queue' = Append(queue, item[t])
                  /\ pc'[t] = "idle"
                  /\ txHolder' = None
                  /\ rxHolder' = rxHolder
                  /\ guards' = guards]_vars

\* C11's case: on a pool created empty, with no guard ever issued, an add has
\* completed while another task was suspended in rsvp holding the receiver lock.
C11_Witness ==
    /\ pool = "alive"
    /\ seed = <<>>
    /\ NumHeld = 0
    /\ husk.owner = None
    /\ queue # <<>>
    /\ \A t \in Tasks : item[t] = None
    /\ rxHolder # None
    /\ pc[rxHolder] = "rsvp_wait"

\* The rsvp call of t ends in this step without a guard: it was abandoned.
Abandoned(t) == pc[t] = "rsvp_wait" /\ pc'[t] = "idle" /\ ~GuardIssued(t)

\* C12 (abandoned reservation): a step that abandons a waiting rsvp creates no
\* guard, leaves the queue and the set of added resources as they are and
\* frees the receiver lock; the lock is never left with a task that is not
\* waiting, so the next caller that asks for it can take it, and it receives
\* the item at the front; the queued and the held resources stay exactly the
\* added ones.
C12_AbandonedReservation ==
    /\ [][\A t \in Tasks :
              Abandoned(t) =>
                  /\ guards' = guards
                  /\ queue' = queue
                  /\ added' = added
                  /\ rxHolder = t
                  /\ rxHolder' = None]_vars
    /\ [](rxHolder # None => pc[rxHolder] = "rsvp_wait")
    /\ [](\A u \in Tasks :
              (pc[u] = "rsvp_lock_rx" /\ rxHolder = None) => ENABLED RsvpLockRx(u))
    /\ [][\A u \in Tasks :
              GuardIssued(u) => guards'[u] = Append(guards[u], Head(queue))]_vars
    /\ []C1_Conservation

\* C12's case: a reservation was abandoned on a pool that had never been given
\* a resource, and a resource added after that is now held by a guard.
C12_Witness ==
    /\ pool = "alive"
    /\ gaveUp # None
    /\ pc[gaveUp] = "idle"
    /\ NumHeld = 1
    /\ Cardinality(added) = 1
    /\ husk.owner = None

\* C13 (the pool must outlive its guards): a guard that goes out of scope after
\* the pool was dropped sends its owner into the panic "Pool was dropped
\* before guard", and the resource it held is then in no queue and in no guard;
\* a guard that goes out of scope while the pool is alive leaves its owner
\* running, and no task is ever in that panic while the pool exists.
C13_PoolOutlivesGuards ==
    /\ [][\A t \in Tasks :
              GuardDropped(t) =>
                  IF pool = "alive"
                  THEN pc'[t] = "idle"
                  ELSE /\ pool = "dropped"
                       /\ pc'[t] = "pool_dropped"
                       /\ queue' = <<>>
                       /\ \E i \in 1..Len(guards[t]) :
                              /\ guards'[t] = RemoveAt(guards[t], i)
                              /\ \A u \in Tasks : guards[t][i] \notin Range(guards'[u])]_vars
    /\ [](\A t \in Tasks : pc[t] = "pool_dropped" => pool = "dropped")

\* C13's case: the pool is gone and a task that dropped a guard afterwards has
\* panicked, while another guard is still held.
C13_Witness ==
    /\ pool = "dropped"
    /\ \E t \in Tasks : pc[t] = "pool_dropped" /\ husk.owner = t
    /\ NumHeld >= 1

\* C14 (use after release is unreachable): every guard whose drop has not run
\* holds a resource, so deref and deref_mut can be called on it and no task is
\* ever in their panic; a task's guards change only by a new guard being issued
\* or by the drop of one of them, which leaves that object empty.
C14_DerefNeverFails ==
    /\ [](\A id \in GuardIds : Inner(id) \in Resources)
    /\ [](\A t \in Tasks : pc[t] # "no_inner")
    /\ [](\A id \in GuardIds :
              (pc[id[1]] = "idle" /\ CanRun(id[1])) => ENABLED Deref(id[1], id[2]))
    /\ [][\A t \in Tasks :
              guards'[t] # guards[t] =>
                  \/ \E x \in Resources : guards'[t] = Append(guards[t], x)
                  \/ /\ \E i \in 1..Len(guards[t]) : guards'[t] = RemoveAt(guards[t], i)
                     /\ husk' = [owner |-> t, inner |-> None, drops |-> 1]]_vars

\* C14's case: a task that has dropped one guard still holds another one, which
\* it can dereference.
C14_Witness ==
    \E t \in Tasks :
        /\ husk.owner = t
        /\ guards[t] # <<>>
        /\ ENABLED Deref(t, 1)

\* C15 (rsvp has no failure outcome): a task is inside rsvp only while the pool
\* is alive, the channel then has a sender left, and no task is ever in the
\* panic of the unwrap; every guard rsvp returns holds a resource; and a task
\* suspended on an empty queue has no step of its own: it stays suspended, with
\* the queue and its guards as they are, until something is pushed or its
\* caller abandons the wait.
C15_RsvpNeverFails ==
    /\ [](\A t \in Tasks :
              /\ pc[t] # "closed"
              /\ pc[t] \in InRsvp =>
                    /\ pool = "alive"
                    /\ Senders >= 1
                    /\ ~ENABLED Closed(t)
              /\ (pc[t] = "rsvp_wait" /\ queue = <<>>) => ~ENABLED RsvpWake(t))
    /\ [][\A t \in Tasks :
              /\ GuardIssued(t) => guards'[t][Len(guards'[t])] \in Resources
              /\ (pc[t] = "rsvp_wait" /\ queue = <<>>) =>
                    \/ pc'[t] = "rsvp_wait" /\ guards'[t] = guards[t]
                    \/ Abandoned(t) /\ queue' = <<>>]_vars

\* C15's case: a task is suspended in rsvp on a pool that was created empty and
\* has never been given a resource, so that only the pool's own sender and the
\* call's clone of it keep the channel open.
C15_Witness ==
    \E t \in Tasks :
        /\ pc[t] = "rsvp_wait"
        /\ added = {}
        /\ Senders = 2

\* C16 (consumer mutual exclusion): at most one task is waiting inside rsvp for
\* an item; it is the holder of the write lock on the receiver, and nobody else
\* holds that lock; a guard is handed only to the holder of the lock, or to a
\* task that takes the free lock in the same step, and the lock is free when
\* rsvp has returned.
C16_ConsumerExclusion ==
    /\ [](Cardinality({t \in Tasks : pc[t] = "rsvp_wait"}) <= 1)
    /\ [](\A t \in Tasks : (pc[t] = "rsvp_wait") = (rxHolder = t))
    /\ [][\A t \in Tasks :
              GuardIssued(t) =>
                  /\ rxHolder \in {None, t}
                  /\ rxHolder' = None
                  /\ \A u \in Tasks \ {t} : ~GuardIssued(u)]_vars

\* C16's case: one task waits for an item holding the lock while a task on
\* another worker thread is inside rsvp asking for the same lock.
C16_Witness ==
    \E t, u \in Tasks :
        /\ pc[t] = "rsvp_wait"
        /\ rxHolder = t
        /\ pc[u] = "rsvp_lock_rx"
        /\ worker[u] # worker[t]

\* Task p called rsvp before task q did.
Before(p, q) ==
    /\ p \in Range(began)
    /\ q \in Range(began)
    /\ Pos(began, p) < Pos(began, q)

\* C17 as the specification states it (waiter order): when the rsvp of a task
\* that waited on the empty pool resolves, no call begun before it is still
\* unresolved.
C17_BeginOrder ==
    [][\A p, q \in Tasks :
          (pc[q] = "rsvp_wait" /\ GuardIssued(q) /\ Before(p, q)) => pc[p] \notin InRsvp]_vars

\* C17 as amended: the order is that of taking the write lock on the receiver.
\* While a task is suspended in rsvp holding that lock no other rsvp resolves,
\* and the holder receives the item at the front; a call that began earlier is
\* overtaken only while it has not yet been granted the lock, and only by a
\* call running on another worker thread.
C17_LockOrder ==
    [][\A q \in Tasks :
          GuardIssued(q) =>
              /\ rxHolder \in {None, q}
              /\ guards'[q] = Append(guards[q], Head(queue))
              /\ \A p \in Tasks :
                     (Before(p, q) /\ pc[p] \in InRsvp) =>
                         /\ pc[p] = "rsvp_lock_rx"
                         /\ worker[p] # worker[q]]_vars

\* C17's case: a task that called rsvp second has waited on the empty pool and
\* holds the only resource, while the task that called first is still inside
\* rsvp.
C17_Witness ==
    \E p, q \in Tasks :
        /\ Before(p, q)
        /\ pc[p] \in InRsvp
        /\ guards[q] # <<>>
        /\ seed = <<>>
        /\ Cardinality(added) = 1

C19_Seeding ==
    /\ [](pool = "building" =>
              /\ queue \o initial_resources = seed
              /\ ENABLED (NewWithAdd \/ NewWithReturn))
    /\ [][pool = "building" =>
              \/ /\ pool' = "building"
                 /\ Len(initial_resources') < Len(initial_resources)
              \/ /\ pool' = "alive"
                 /\ queue' = seed
                 /\ Len(queue') = Cardinality(added')
                 /\ rxHolder' = None
                 /\ txHolder' = None
                 /\ \A t \in Tasks : guards'[t] = <<>> /\ pc'[t] = "idle"]_vars

\* C19's case: new_with has returned a pool seeded with two resources and no
\* task has touched it yet.
C19_Witness ==
    /\ pool = "alive"
    /\ Len(seed) >= 2
    /\ queue = seed
    /\ pristine
    /\ NumHeld = 0
    /\ \A t \in Tasks : pc[t] = "idle"

\* C20 (poisoned lock): the receiver lock becomes poisoned only by a task that
\* fails fatally while holding it, it is free afterwards and stays poisoned;
\* from then on no rsvp returns a guard, a call that asks for the lock can
\* always take its step, which ends in the panic "Poisoned receiver" with the
\* queue as it was, and nothing leaves the queue; a guard issued earlier can
\* still be dropped, which queues its resource.  The sender lock is never
\* poisoned: no task fails while holding it.
C20_PoisonedLock ==
    /\ [](rxPoisoned =>
              /\ rxHolder = None
              /\ \A t \in Tasks :
                    /\ pc[t] # "rsvp_wait"
                    /\ pc[t] = "rsvp_lock_rx" => ENABLED RsvpLockRx(t)
                    /\ (pool = "alive" /\ pc[t] = "idle" /\ CanRun(t)) =>
                          \A i \in 1..Len(guards[t]) : ENABLED DropGuard(t, i))
    /\ [](~txPoisoned /\ \A t \in Tasks : pc[t] # "send_failed")
    /\ [][/\ rxPoisoned => rxPoisoned'
          /\ (~rxPoisoned /\ rxPoisoned') =>
                (rxHolder # None /\ pc'[rxHolder] \in Fatal /\ rxHolder' = None)
          /\ rxPoisoned =>
                /\ \A t \in Tasks :
                      /\ ~GuardIssued(t)
                      /\ (pc[t] = "rsvp_lock_rx" /\ pc'[t] # pc[t]) =>
                            (pc'[t] = "poisoned" /\ queue' = queue)
                      /\ (GuardDropped(t) /\ pool = "alive") =>
                            Len(queue') = Len(queue) + 1
                /\ Len(queue') >= Len(queue)]_vars

\* C20's case: the receiver lock is poisoned, a resource dropped by its guard
\* sits in the queue, and the rsvp of the task that dropped it has ended in
\* the panic.
C20_Witness ==
    \E u \in Tasks :
        /\ rxPoisoned
        /\ pc[u] = "poisoned"
        /\ husk.owner = u
        /\ queue # <<>>

====
